---- MODULE Spec2Model ----
(***************************************************************************)
(* Model of the benchmark-analysis scripts under src/evaluation_results:   *)
(*   scalability_visualization.py  (analyze_scalability, run by main)      *)
(*   visualization_script.py       (analyze_csv, run by main)              *)
(*   access_pattern_visualization.py (module-level script)                 *)
(* A run is one execution of one script on one input file.  The input is   *)
(* drawn in Init; every action is one statement or call of the script.     *)
(* Chart rendering (matplotlib / seaborn) is modelled only by the artifact *)
(* it writes.  Numbers are exact rationals n/d; NaN is the value 0/0.      *)
(***************************************************************************)
EXTENDS Integers, Sequences, FiniteSets, TLC

VARIABLES
    prog,             \* the script that runs
    pc,               \* the statement the script is at
    csv,              \* the input file: [columns, rows]
    df,               \* the DataFrame read from the file
    operations_data,  \* analyze_csv: rows of Category 'Operation'
    memory_data,      \* analyze_csv: rows of Category 'Memory'
    tables,           \* pivot tables built so far, by name
    best,             \* 'best implementation' lines emitted so far
    mem,              \* 'memory usage' lines emitted so far
    summary,          \* grouped statistical summary written by the script
    files,            \* artifacts opened or written so far, in order
    i,                \* position of the best-implementation loop
    err               \* the step that raised ("" when none did)

vars == <<prog, pc, csv, df, operations_data, memory_data, tables, best, mem,
          summary, files, i, err>>

----------------------------------------------------------------------------
(* Bounds of the model *)

\* rows of scalability_test_results.csv
MaxRows == 3

\* rows of summary_statistics.csv
MaxCsvRows == 3

\* rows of an input file whose columns are not the usual ones
MaxVariantRows == 2

\* rows of each of the three access-pattern files
MaxAccessRows == 2

\* rows added before or after the four rows of a complete summary_statistics.csv
MaxExtraRows == 1

----------------------------------------------------------------------------
(* Numbers: exact rationals, NaN = 0/0 *)

RECURSIVE GCD(_, _)
GCD(a, b) == IF b = 0 THEN a ELSE GCD(b, a % b)

Abs(x) == IF x < 0 THEN -x ELSE x

Rat(n, d) ==
    LET g == GCD(Abs(n), Abs(d))
        s == IF d < 0 THEN -1 ELSE 1
    IN  [n |-> (s * n) \div g, d |-> (s * d) \div g]

NaN == [n |-> 0, d |-> 0]

Num(k) == [n |-> k, d |-> 1]

isna(x) == x.d = 0

notna(x) == ~isna(x)

Lt(a, b) == a.n * b.d < b.n * a.d

Add(a, b) == Rat(a.n * b.d + b.n * a.d, a.d * b.d)

Sub(a, b) == Rat(a.n * b.d - b.n * a.d, a.d * b.d)

Mul(a, b) == Rat(a.n * b.n, a.d * b.d)

\* pd.to_numeric(errors='coerce') / read_csv's parse of one cell's text
to_numeric(text) ==
    CASE text = "1" -> Num(1)
      [] text = "2" -> Num(2)
      [] text = "4" -> Num(4)
      [] OTHER -> NaN

\* Python's sort order of the strings the model uses (ASCII order)
Lexicographic ==
    << "BOOLEAN_CONDITION", "COMPLEX_SELECT", "DATE_CONDITION", "INSERT",
       "SELECT", "backwards", "int", "leaky", "str" >>

Pos(s) == CHOOSE k \in 1..Len(Lexicographic) : Lexicographic[k] = s

StrLt(a, b) == Pos(a) < Pos(b)

----------------------------------------------------------------------------
(* Sequences *)

Range(s) == {s[k] : k \in 1..Len(s)}

RECURSIVE SortedInts(_)
\* sorted(set of integers)
SortedInts(S) ==
    IF S = {} THEN <<>>
    ELSE LET m == CHOOSE x \in S : \A y \in S : x <= y
         IN  <<m>> \o SortedInts(S \ {m})

RECURSIVE SortedStrs(_)
\* sorted(set of strings)
SortedStrs(S) ==
    IF S = {} THEN <<>>
    ELSE LET m == CHOOSE x \in S : \A y \in S : x = y \/ StrLt(x, y)
         IN  <<m>> \o SortedStrs(S \ {m})

RECURSIVE SumSeq(_)
SumSeq(s) == IF s = <<>> THEN Num(0) ELSE Add(Head(s), SumSeq(Tail(s)))

\* the non-NaN values of a column, in row order (pandas skipna)
Valid(values) == SelectSeq(values, notna)

\* Series.mean(): NaN skipped; NaN when nothing is left
SeriesMean(values) ==
    LET v == Valid(values)
    IN  IF v = <<>> THEN NaN ELSE Mul(SumSeq(v), Rat(1, Len(v)))

----------------------------------------------------------------------------
(* DataFrames: a sequence of [label, data]; data maps column name to cell *)

Frame(rows) == [k \in 1..Len(rows) |-> [label |-> k - 1, data |-> rows[k]]]

Column(frame, c) == [k \in 1..Len(frame) |-> frame[k].data[c]]

\* Series.idxmin(): the label of the first row holding the least non-NaN
\* value; -1 stands for 'no label' when every value is NaN
idxmin(frame, c) ==
    LET ok == {k \in 1..Len(frame) : notna(frame[k].data[c])}
    IN  IF ok = {} THEN -1
        ELSE LET least == {k \in ok : \A j \in ok : ~Lt(frame[j].data[c], frame[k].data[c])}
                 first == CHOOSE k \in least : \A j \in least : k <= j
             IN  frame[first].label

\* DataFrame.loc[label]
loc(frame, label) == (CHOOSE k \in 1..Len(frame) : frame[k].label = label)

\* round(x, digits) and the ':.Nf' formats, scale = 10^digits: the nearest
\* multiple of 1/scale, halves to even; NaN stays NaN
Round(x, scale) ==
    IF isna(x) THEN NaN
    ELSE LET f == (x.n * scale) \div x.d
             r == (x.n * scale) % x.d
             up == (2 * r > x.d) \/ (2 * r = x.d /\ f % 2 = 1)
         IN  Rat(IF up THEN f + 1 ELSE f, scale)

\* df.groupby(key)[value].mean(): one entry per key present, keys sorted,
\* an all-NaN group included with mean NaN
GroupMean(frame, key, value) ==
    LET keys == SortedStrs(Range(Column(frame, key)) \ {"None"})
    IN  [k \in 1..Len(keys) |->
            [key |-> keys[k],
             mean |-> SeriesMean(Column(SelectSeq(frame,
                         LAMBDA r : r.data[key] = keys[k]), value))]]

----------------------------------------------------------------------------
(* scalability_visualization.py *)

Implementations == {"backwards", "leaky"}

RowCounts == {1000, 5000}

NumericText == {"1", "2", "4", "n/a"}

MemoryText == {"1", "n/a"}

\* the columns of scalability_test_results.csv the summary reads; the five
\* columns that only feed the charts are always present and not represented
ScalColumns ==
    {"RowCount", "Implementation", "AvgTimePerOp(ms)", "MemoryOverhead(MB)"}

\* a metrics list that leaves the memory column to the summary's own test
metrics_WithoutMemory == {"AvgTimePerOp(ms)"}

metrics == {"AvgTimePerOp(ms)", "MemoryOverhead(MB)"}

ScalRow(rc, impl, t, m, cols) ==
    [c \in cols |->
        CASE c = "RowCount" -> rc
          [] c = "Implementation" -> impl
          [] c = "AvgTimePerOp(ms)" -> t
          [] OTHER -> m]

ScalRows(cols) ==
    {ScalRow(rc, impl, t, m, cols) :
        rc \in RowCounts, impl \in Implementations, t \in NumericText,
        m \in IF "MemoryOverhead(MB)" \in cols THEN MemoryText ELSE {"n/a"}}

SeqsUpTo(S, n) == UNION {[1..k -> S] : k \in 0..n}

ScalInputs ==
    {[columns |-> cols, rows |-> rows] :
        cols \in {ScalColumns},
        rows \in SeqsUpTo(ScalRows(ScalColumns), MaxRows)}
    \cup
    UNION {{[columns |-> ScalColumns \ {absent}, rows |-> rows] :
               rows \in SeqsUpTo(ScalRows(ScalColumns \ {absent}), MaxVariantRows)} :
           absent \in ScalColumns}

\* an exception that is swallowed: the run goes on to report success
Raise_Swallowed(step) ==
    /\ pc' = "completed"
    /\ err' = step

Raise(step) ==
    /\ pc' = "error"
    /\ err' = step

\* line 13: df = pd.read_csv(file_path)
ScalRead ==
    /\ prog = "scalability" /\ pc = "read"
    /\ df' = Frame(csv.rows)
    /\ pc' = "check_empty"
    /\ UNCHANGED <<prog, csv, operations_data, memory_data, tables, best, mem,
                   summary, files, i, err>>

\* lines 16-18: if df.empty: print(...); return
ScalCheckEmpty ==
    /\ prog = "scalability" /\ pc = "check_empty"
    /\ pc' = IF df = <<>> THEN "empty" ELSE "to_numeric"
    /\ UNCHANGED <<prog, csv, df, operations_data, memory_data, tables, best,
                   mem, summary, files, i, err>>

\* a coercion that drops the rows it cannot convert
Coerced_DroppingInvalidRows(frame, cols) ==
    LET kept == SelectSeq(frame,
                    LAMBDA r : \A c \in cols : notna(to_numeric(r.data[c])))
    IN  [k \in 1..Len(kept) |->
            [label |-> kept[k].label,
             data |-> [c \in DOMAIN kept[k].data |->
                          IF c \in cols THEN to_numeric(kept[k].data[c])
                          ELSE kept[k].data[c]]]]

Coerced(frame, cols) ==
    [k \in 1..Len(frame) |->
        [label |-> frame[k].label,
         data |-> [c \in DOMAIN frame[k].data |->
                      IF c \in cols THEN to_numeric(frame[k].data[c])
                      ELSE frame[k].data[c]]]]

\* lines 21-27: df[metric] = pd.to_numeric(df[metric], errors='coerce');
\* df[metric] of an absent column raises KeyError
ScalToNumeric ==
    /\ prog = "scalability" /\ pc = "to_numeric"
    /\ IF metrics \subseteq csv.columns
       THEN /\ df' = Coerced(df, metrics)
            /\ pc' = "plot_total_time"
            /\ UNCHANGED err
       ELSE /\ Raise("to_numeric")
            /\ UNCHANGED df
    /\ UNCHANGED <<prog, csv, operations_data, memory_data, tables, best, mem,
                   summary, files, i>>

\* a chart function: renders and saves one image; seaborn raises ValueError
\* before the savefig when a column named for x, y or hue is not in the data
Plot(at, drawable, image, next) ==
    /\ pc = at
    /\ IF drawable
       THEN /\ files' = Append(files, image)
            /\ pc' = next
            /\ UNCHANGED err
       ELSE /\ Raise(at)
            /\ UNCHANGED files
    /\ UNCHANGED <<prog, csv, df, operations_data, memory_data, tables, best,
                   mem, summary, i>>

\* lines 51, 62, 78-81, 93: every line chart has x='RowCount' and
\* hue='Implementation'; its y column went through the loop of lines 26-27
lineplot == {"RowCount", "Implementation"} \subseteq csv.columns

\* lines 30-36: plot_total_time, plot_avg_time_per_op, plot_percentiles,
\* plot_memory_usage
ScalPlots ==
    /\ prog = "scalability"
    /\ \/ Plot("plot_total_time", lineplot,
               "scalability_total_time.png", "plot_avg_time_per_op")
       \/ Plot("plot_avg_time_per_op", lineplot,
               "scalability_avg_time_per_op.png", "plot_percentiles")
       \/ Plot("plot_percentiles", lineplot,
               "scalability_percentiles.png", "plot_memory_usage")
       \/ Plot("plot_memory_usage", lineplot,
               "scalability_memory_usage.png", "print_summary_statistics")

\* line 110: row_counts = sorted(df['RowCount'].unique())
row_counts(frame) == SortedInts(Range(Column(frame, "RowCount")))

\* lines 103-117: the headers; scalability_summary.txt is opened for writing
ScalSummaryOpen ==
    /\ prog = "scalability" /\ pc = "print_summary_statistics"
    /\ files' = Append(files, "scalability_summary.txt")
    /\ i' = 1
    /\ pc' = "best_loop"
    /\ UNCHANGED <<prog, csv, df, operations_data, memory_data, tables, best,
                   mem, summary, err>>

\* lines 119-120: subset = df[df['RowCount'] == row_count];
\* best_impl = subset.loc[subset['AvgTimePerOp(ms)'].idxmin()]
\* the label of the best row, -1 when idxmin finds no valid value
ScalBestLabel(frame, row_count) ==
    idxmin(SelectSeq(frame, LAMBDA r : r.data["RowCount"] = row_count),
           "AvgTimePerOp(ms)")

\* lines 118-124: one iteration of 'for row_count in row_counts'; with no
\* valid value in the subset the lookup at line 120 raises
ScalBestStep ==
    /\ prog = "scalability" /\ pc = "best_loop"
    /\ i <= Len(row_counts(df))
    /\ LET row_count == row_counts(df)[i]
           label == ScalBestLabel(df, row_count)
       IN  IF label = -1
           THEN /\ Raise("best_loop")
                /\ UNCHANGED <<best, i>>
           ELSE LET best_impl == df[loc(df, label)].data
                IN  /\ best' = Append(best,
                           [key |-> row_count,
                            Implementation |-> best_impl["Implementation"],
                            value |-> Round(best_impl["AvgTimePerOp(ms)"], 1000)])
                    /\ i' = i + 1
                    /\ UNCHANGED <<pc, err>>
    /\ UNCHANGED <<prog, csv, df, operations_data, memory_data, tables, mem,
                   summary, files>>

\* lines 131-136: one line per entry of the grouped mean, NaN or not
ScalMemoryLines(frame) ==
    LET memory_summary == GroupMean(frame, "Implementation", "MemoryOverhead(MB)")
    IN  [k \in 1..Len(memory_summary) |->
            [Implementation |-> memory_summary[k].key,
             value |-> Round(memory_summary[k].mean, 100)]]

\* lines 126-141: the memory usage summary, after the loop has ended
ScalMemorySummary ==
    /\ prog = "scalability" /\ pc = "best_loop"
    /\ i > Len(row_counts(df))
    /\ mem' = IF "MemoryOverhead(MB)" \in csv.columns
              THEN ScalMemoryLines(df)
              ELSE <<[Implementation |-> "None", value |-> NaN]>>
    /\ pc' = "completed"
    /\ UNCHANGED <<prog, csv, df, operations_data, memory_data, tables, best,
                   summary, files, i, err>>

\* lines 40-46: print("Analysis completed successfully!") and the file list
Completed ==
    /\ pc = "completed"
    /\ pc' = "done"
    /\ UNCHANGED <<prog, csv, df, operations_data, memory_data, tables, best,
                   mem, summary, files, i, err>>

----------------------------------------------------------------------------
(* Grouped statistics and pivot tables (pandas) *)

\* a minimum that takes the first valid value
SeriesMin_FirstValue(values) ==
    LET v == Valid(values)
    IN  IF v = <<>> THEN NaN ELSE v[1]

\* Series.min() / Series.max(): NaN skipped; NaN when nothing is left
SeriesMin(values) ==
    LET v == Valid(values)
    IN  IF v = <<>> THEN NaN
        ELSE v[CHOOSE k \in 1..Len(v) : \A j \in 1..Len(v) : ~Lt(v[j], v[k])]

SeriesMax(values) ==
    LET v == Valid(values)
    IN  IF v = <<>> THEN NaN
        ELSE v[CHOOSE k \in 1..Len(v) : \A j \in 1..Len(v) : ~Lt(v[k], v[j])]

\* the population variance (ddof = 0)
SeriesVar_Population(values) ==
    LET v == Valid(values)
        n == Len(v)
        m == SeriesMean(values)
        sq == [k \in 1..n |-> Mul(Sub(v[k], m), Sub(v[k], m))]
    IN  IF n < 1 THEN NaN ELSE Mul(SumSeq(sq), Rat(1, n))

\* the sample variance (ddof = 1) of the valid values; NaN with fewer than two
SeriesVar(values) ==
    LET v == Valid(values)
        n == Len(v)
        m == SeriesMean(values)
        sq == [k \in 1..n |-> Mul(Sub(v[k], m), Sub(v[k], m))]
    IN  IF n < 2 THEN NaN ELSE Mul(SumSeq(sq), Rat(1, n - 1))

\* Series.std(): the sample standard deviation, kept exact as the square
\* root of a rational, [sqrt_of |-> variance]; NaN with fewer than two values
SeriesStd(values) ==
    LET var == SeriesVar(values)
    IN  IF isna(var) THEN NaN ELSE [n |-> 1, d |-> 1, sqrt_of |-> var]

RECURSIVE Newton(_, _)
Newton(n, x) ==
    LET y == (x + n \div x) \div 2
    IN  IF y >= x THEN x ELSE Newton(n, y)

\* the integer square root
ISqrt(n) == IF n < 2 THEN n ELSE Newton(n, n)

\* round() of a standard deviation: the multiple of 1/scale nearest to
\* sqrt(variance)
RoundStd(x, scale) ==
    IF isna(x) THEN NaN
    ELSE Rat((ISqrt((4 * x.sqrt_of.n * scale * scale) \div x.sqrt_of.d) + 1) \div 2,
             scale)

RECURSIVE FirstSeen(_)
\* the distinct values of a sequence in order of first appearance
FirstSeen(values) ==
    IF values = <<>> THEN <<>>
    ELSE LET init == FirstSeen(SubSeq(values, 1, Len(values) - 1))
             last == values[Len(values)]
         IN  IF \E k \in 1..Len(init) : init[k] = last THEN init
             ELSE Append(init, last)

\* a pivot table that keeps its keys in order of first appearance (sort=False)
pivot_table_Unsorted(frame, values, index, columns) ==
    [index |-> FirstSeen(Column(frame, index)),
     columns |-> FirstSeen(Column(frame, columns)),
     cell |-> [rc \in Range(Column(frame, index)) \X Range(Column(frame, columns)) |->
                 SeriesMean(Column(SelectSeq(frame,
                     LAMBDA r : r.data[index] = rc[1] /\ r.data[columns] = rc[2]),
                     values))]]

\* DataFrame.pivot_table(values=, index=, columns=, aggfunc='mean'): the
\* index holds the sorted row keys present, the columns the sorted column
\* keys present, and a cell the mean of its rows, NaN for a cell with none
pivot_table(frame, values, index, columns) ==
    [index |-> SortedStrs(Range(Column(frame, index))),
     columns |-> SortedStrs(Range(Column(frame, columns))),
     cell |-> [rc \in Range(Column(frame, index)) \X Range(Column(frame, columns)) |->
                 SeriesMean(Column(SelectSeq(frame,
                     LAMBDA r : r.data[index] = rc[1] /\ r.data[columns] = rc[2]),
                     values))]]

\* DataFrame.fillna(0)
fillna0(table) ==
    [table EXCEPT !.cell =
        [rc \in DOMAIN table.cell |->
            IF isna(table.cell[rc]) THEN Num(0) ELSE table.cell[rc]]]

\* the rows whose cell in column c is one of the given values
isin(frame, c, S) == SelectSeq(frame, LAMBDA r : r.data[c] \in S)

----------------------------------------------------------------------------
(* visualization_script.py *)

basic_ops == {"SELECT", "INSERT", "UPDATE", "DELETE"}

complex_ops == {"COMPLEX_SELECT", "COMPLEX_UPDATE", "COMPLEX_DELETE"}

conditions ==
    {"BOOLEAN_CONDITION", "GREATER_THAN_CONDITION", "DATE_CONDITION",
     "UNKNOWN_CONDITION"}

\* the Metric values the modelled files hold
Metrics == {"SELECT", "COMPLEX_SELECT", "BOOLEAN_CONDITION"}

\* the (Category, Metric) pairs of a row
Kinds == ({"Operation"} \X Metrics) \cup {<<"Memory", "MEMORY">>}

\* Best_Implementation cells, as token sequences; "__" is the delimiter
BestImplementationText ==
    { <<"backwards", "__", "int">>, <<"leaky", "__", "str">>,
      <<"onlyonepart">>, <<"leaky", "__", "int", "__", "x">> }

TimeText == {"1", "2", ""}

CsvColumns == {"Category", "Best_Implementation", "Metric", "Average_Time_ms"}

CsvRow(kind, bi, t, cols) ==
    [c \in cols |->
        CASE c = "Category" -> kind[1]
          [] c = "Metric" -> kind[2]
          [] c = "Best_Implementation" -> bi
          [] c = "Average_Time_ms" -> t
          [] OTHER -> "0"]

CsvRows(cols) ==
    {CsvRow(kind, bi, t, cols) :
        kind \in Kinds, bi \in BestImplementationText, t \in TimeText}

\* one valid row of each kind the chart steps need: a basic operation, a
\* complex operation, a conditional query and a memory measurement
CompleteRows(cols) ==
    << CsvRow(<<"Operation", "SELECT">>, <<"backwards", "__", "int">>, "1", cols),
       CsvRow(<<"Operation", "COMPLEX_SELECT">>, <<"backwards", "__", "int">>, "1", cols),
       CsvRow(<<"Operation", "BOOLEAN_CONDITION">>, <<"backwards", "__", "int">>, "1", cols),
       CsvRow(<<"Memory", "MEMORY">>, <<"backwards", "__", "int">>, "1", cols) >>

\* the files that hold those four rows with up to MaxExtraRows rows before
\* and after them
CompleteFiles(cols) ==
    LET extra == SeqsUpTo(CsvRows(cols), MaxExtraRows)
    IN  {around[1] \o CompleteRows(cols) \o around[2] :
            around \in {x \in extra \X extra : Len(x[1]) + Len(x[2]) <= MaxExtraRows}}

CsvInputs ==
    {[columns |-> CsvColumns, rows |-> rows] :
        rows \in SeqsUpTo(CsvRows(CsvColumns), MaxCsvRows)
                     \cup CompleteFiles(CsvColumns)}
    \cup
    {[columns |-> CsvColumns \cup {"Data_Size"}, rows |-> rows] :
        rows \in SeqsUpTo(CsvRows(CsvColumns \cup {"Data_Size"}), MaxVariantRows)
                     \cup CompleteFiles(CsvColumns \cup {"Data_Size"})}
    \cup
    UNION {{[columns |-> CsvColumns \ {absent}, rows |-> rows] :
               rows \in SeqsUpTo(CsvRows(CsvColumns \ {absent}), MaxVariantRows)} :
           absent \in CsvColumns}

\* str.split('__') of one cell: the parts between the delimiters
RECURSIVE split(_)
split(text) ==
    LET cut == {k \in 1..Len(text) : text[k] = "__"}
        part(t) == IF t = <<>> THEN "" ELSE t[1]
    IN  IF cut = {} THEN <<part(text)>>
        ELSE LET k == CHOOSE x \in cut : \A y \in cut : x <= y
             IN  <<part(SubSeq(text, 1, k - 1))>> \o split(SubSeq(text, k + 1, Len(text)))

\* the number of columns of .str.split('__', expand=True): the longest
\* row's number of parts, none for a frame with no rows
ExpandWidth(frame) ==
    LET n == {Len(split(frame[k].data["Best_Implementation"])) : k \in 1..Len(frame)}
    IN  IF n = {} THEN 0 ELSE CHOOSE x \in n : \A y \in n : y <= x

\* frame[['Implementation', 'DataType']] = the two expanded columns, a row
\* with one part getting None as its second
WithSplit(frame) ==
    [k \in 1..Len(frame) |->
        LET parts == split(frame[k].data["Best_Implementation"])
        IN  [label |-> frame[k].label,
             data |-> frame[k].data @@
                 [c \in {"Implementation", "DataType"} |->
                     IF c = "Implementation" THEN parts[1]
                     ELSE IF Len(parts) >= 2 THEN parts[2] ELSE "None"]]]

\* whether a cell is missing: NaN for a number, None for a string
Missing(data, c) ==
    IF c = "Average_Time_ms" THEN isna(data[c]) ELSE data[c] = "None"

\* DataFrame.dropna(subset=cols)
dropna(frame, cols) ==
    SelectSeq(frame, LAMBDA r : \A c \in cols : ~Missing(r.data, c))

\* line 14: df = pd.read_csv(file_path); Average_Time_ms is parsed as a
\* number, an empty cell as NaN
CsvRead ==
    /\ prog = "summary" /\ pc = "read"
    /\ df' = Coerced(Frame(csv.rows), {"Average_Time_ms"})
    /\ pc' = "filter"
    /\ UNCHANGED <<prog, csv, operations_data, memory_data, tables, best, mem,
                   summary, files, i, err>>

\* lines 17-18: the rows of each Category; df['Category'] of a frame
\* without that column raises KeyError
CsvFilter ==
    /\ prog = "summary" /\ pc = "filter"
    /\ IF "Category" \in csv.columns
       THEN /\ operations_data' =
                   SelectSeq(df, LAMBDA r : r.data["Category"] = "Operation")
            /\ memory_data' =
                   SelectSeq(df, LAMBDA r : r.data["Category"] = "Memory")
            /\ pc' = "split_operations"
            /\ UNCHANGED err
       ELSE /\ Raise("filter")
            /\ UNCHANGED <<operations_data, memory_data>>
    /\ UNCHANGED <<prog, csv, df, tables, best, mem, summary, files, i>>

\* line 21: two columns are assigned from the expanded split, which raises
\* ValueError unless the split has exactly two columns;
\* operations_data['Best_Implementation'] of a frame without that column
\* raises KeyError
CsvSplitOperations ==
    /\ prog = "summary" /\ pc = "split_operations"
    /\ IF /\ "Best_Implementation" \in csv.columns
          /\ ExpandWidth(operations_data) = 2
       THEN /\ operations_data' = WithSplit(operations_data)
            /\ pc' = "split_memory"
            /\ UNCHANGED err
       ELSE /\ Raise("split_operations")
            /\ UNCHANGED operations_data
    /\ UNCHANGED <<prog, csv, df, memory_data, tables, best, mem, summary,
                   files, i>>

\* line 22: the same for memory_data
CsvSplitMemory ==
    /\ prog = "summary" /\ pc = "split_memory"
    /\ IF ExpandWidth(memory_data) = 2
       THEN /\ memory_data' = WithSplit(memory_data)
            /\ pc' = "dropna"
            /\ UNCHANGED err
       ELSE /\ Raise("split_memory")
            /\ UNCHANGED memory_data
    /\ UNCHANGED <<prog, csv, df, operations_data, tables, best, mem, summary,
                   files, i>>

\* lines 25-26: rows with a missing value are dropped; a subset column that
\* the frame does not have raises KeyError
CsvDropna ==
    /\ prog = "summary" /\ pc = "dropna"
    /\ IF {"Metric", "Average_Time_ms"} \subseteq csv.columns
       THEN /\ operations_data' = dropna(operations_data,
                   {"Implementation", "DataType", "Metric", "Average_Time_ms"})
            /\ memory_data' = dropna(memory_data,
                   {"Implementation", "DataType", "Average_Time_ms"})
            /\ pc' = "create_operation_performance_plot"
            /\ UNCHANGED err
       ELSE /\ Raise("dropna")
            /\ UNCHANGED <<operations_data, memory_data>>
    /\ UNCHANGED <<prog, csv, df, tables, best, mem, summary, files, i>>

\* a table with no cell: sns.heatmap takes np.nanmin of its values, which
\* raises ValueError for a zero-size array
Empty(table) == table.index = <<>> \/ table.columns = <<>>

\* a step of analyze_csv that builds tables and writes one artifact; when a
\* heatmap of the step cannot be drawn the step raises before its savefig
\* and its tables are lost with it
Build(at, built, drawable, image, next) ==
    /\ prog = "summary" /\ pc = at
    /\ IF drawable
       THEN /\ tables' = tables @@ built
            /\ files' = Append(files, image)
            /\ pc' = next
            /\ UNCHANGED err
       ELSE /\ Raise(at)
            /\ UNCHANGED <<tables, files>>
    /\ UNCHANGED <<prog, csv, df, operations_data, memory_data, best, mem,
                   summary, i>>

\* lines 64-69: performance_data
performance_data(frame) ==
    fillna0(pivot_table(frame, "Average_Time_ms", "Implementation", "Metric"))

\* lines 103-108: data_type_perf
data_type_perf(frame) ==
    fillna0(pivot_table(frame, "Average_Time_ms", "DataType", "Metric"))

\* lines 182-187: basic_data
basic_data(frame) ==
    fillna0(pivot_table(isin(frame, "Metric", basic_ops),
                        "Average_Time_ms", "Implementation", "Metric"))

\* lines 197-202: complex_data
complex_data(frame) ==
    fillna0(pivot_table(isin(frame, "Metric", complex_ops),
                        "Average_Time_ms", "Implementation", "Metric"))

\* lines 331-338: cond_heatmap
cond_heatmap(frame) ==
    pivot_table(isin(frame, "Metric", conditions),
                "Average_Time_ms", "Implementation", "Metric")

RECURSIVE unique(_)
\* Series.unique(): the distinct values in order of first appearance
unique(values) ==
    IF values = <<>> THEN <<>>
    ELSE LET init == unique(SubSeq(values, 1, Len(values) - 1))
             last == values[Len(values)]
         IN  IF last \in Range(init) THEN init ELSE Append(init, last)

\* Metric.str.startswith('COMPLEX_')
startswith_COMPLEX(metric) ==
    metric \in {"COMPLEX_SELECT", "COMPLEX_UPDATE", "COMPLEX_DELETE"}

\* lines 220-240 and 263-283: the five characteristics of each implementation
\* in the given order
characteristics(frame, impls) ==
    [k \in 1..Len(impls) |->
        LET impl_data == SelectSeq(frame, LAMBDA r : r.data["Implementation"] = impls[k])
            avg(rows) == SeriesMean(Column(rows, "Average_Time_ms"))
        IN  [Implementation |-> impls[k],
             basic |-> avg(isin(impl_data, "Metric", basic_ops)),
             complex |-> avg(SelectSeq(impl_data,
                            LAMBDA r : startswith_COMPLEX(r.data["Metric"]))),
             write |-> avg(isin(impl_data, "Metric", {"INSERT", "UPDATE"})),
             read |-> avg(isin(impl_data, "Metric", {"SELECT", "COMPLEX_SELECT"})),
             consistency |-> SeriesStd(Column(impl_data, "Average_Time_ms"))]]

\* lines 130-136 and 156-162: for each metric in sorted order, the row that
\* idxmin picks, when it picks one
CsvBestLines(op_data) ==
    LET ms == SortedStrs(Range(Column(op_data, "Metric")))
        line(metric) ==
            LET subset == SelectSeq(op_data, LAMBDA r : r.data["Metric"] = metric)
                min_idx == idxmin(subset, "Average_Time_ms")
            IN  IF subset # <<>> /\ min_idx # -1
                THEN <<[key |-> metric,
                        Implementation |-> subset[loc(subset, min_idx)].data["Implementation"],
                        value |-> Round(subset[loc(subset, min_idx)].data["Average_Time_ms"], 1000)]>>
                ELSE <<>>
        RECURSIVE lines(_)
        lines(k) == IF k > Len(ms) THEN <<>> ELSE line(ms[k]) \o lines(k + 1)
    IN  lines(1)

\* lines 143-147 and 166-168: the rounded mean per implementation, a line for
\* each mean that is not NaN
CsvMemoryLines(mem_data) ==
    LET mem_summary == GroupMean(mem_data, "Implementation", "Average_Time_ms")
        shown == SelectSeq(mem_summary, LAMBDA e : notna(Round(e.mean, 100)))
    IN  [k \in 1..Len(shown) |->
            [Implementation |-> shown[k].key, value |-> Round(shown[k].mean, 100)]]

\* lines 122-168: print_summary_statistics(op_data, mem_data), which also
\* writes performance_summary.txt
CsvSummaryStatistics ==
    /\ prog = "summary" /\ pc = "print_summary_statistics"
    /\ best' = CsvBestLines(operations_data)
    /\ mem' = CsvMemoryLines(memory_data)
    /\ files' = Append(files, "performance_summary.txt")
    /\ pc' = "analyze_operation_patterns"
    /\ UNCHANGED <<prog, csv, df, operations_data, memory_data, tables,
                   summary, i, err>>

\* lines 29-37 but print_summary_statistics; the bar and box charts draw
\* nothing for a frame without rows and do not raise
CsvSteps ==
    \/ Build("create_operation_performance_plot",
             [performance_data |-> performance_data(operations_data)],
             ~Empty(performance_data(operations_data)),
             "operation_performance.png", "create_memory_usage_plot")
    \/ (prog = "summary" /\
        Plot("create_memory_usage_plot", TRUE,
             "memory_usage.png", "create_data_type_comparison"))
    \/ Build("create_data_type_comparison",
             [data_type_perf |-> data_type_perf(operations_data)],
             ~Empty(data_type_perf(operations_data)),
             "data_type_performance.png", "print_summary_statistics")
    \/ Build("analyze_operation_patterns",
             [basic_data |-> basic_data(operations_data),
              complex_data |-> complex_data(operations_data)],
             /\ ~Empty(basic_data(operations_data))
             /\ ~Empty(complex_data(operations_data)),
             "implementation_patterns.png", "analyze_implementation_characteristics")
    \/ Build("analyze_implementation_characteristics",
             [characteristics |-> characteristics(operations_data,
                  unique(Column(operations_data, "Implementation")))],
             operations_data # <<>>,
             "implementation_characteristics.png", "print_implementation_analysis")
    \/ Build("print_implementation_analysis",
             [implementation_analysis |-> characteristics(operations_data,
                  SortedStrs(Range(Column(operations_data, "Implementation"))))],
             TRUE,
             "implementation_analysis.txt", "plot_latency_distribution")
    \/ (prog = "summary" /\
        Plot("plot_latency_distribution", TRUE,
             "latency_distribution.png", "analyze_conditional_queries"))
    \/ Build("analyze_conditional_queries",
             [cond_heatmap |-> cond_heatmap(operations_data)],
             ~Empty(cond_heatmap(operations_data)),
             "conditional_query_performance.png", "plot_trend_over_data_sizes")

\* lines 40-43: the trend chart, when the frame has a Data_Size column
CsvTrend ==
    /\ prog = "summary" /\ pc = "plot_trend_over_data_sizes"
    /\ files' = IF "Data_Size" \in csv.columns
                THEN Append(files, "performance_trend_over_data_sizes.png")
                ELSE files
    /\ pc' = "generate_statistical_summary"
    /\ UNCHANGED <<prog, csv, df, operations_data, memory_data, tables, best,
                   mem, summary, i, err>>

\* the sorted (Implementation, Metric) pairs present in a frame
RECURSIVE SortedPairs(_)
SortedPairs(S) ==
    IF S = {} THEN <<>>
    ELSE LET m == CHOOSE x \in S : \A y \in S :
                     \/ x = y
                     \/ StrLt(x[1], y[1])
                     \/ (x[1] = y[1] /\ StrLt(x[2], y[2]))
         IN  <<m>> \o SortedPairs(S \ {m})

\* lines 360-363: groupby(['Implementation', 'Metric']) with mean, min, max
\* and std of Average_Time_ms, rounded to three places
statistical_summary(frame) ==
    LET keys == SortedPairs({<<frame[k].data["Implementation"], frame[k].data["Metric"]>> :
                                k \in 1..Len(frame)})
    IN  [k \in 1..Len(keys) |->
            LET values == Column(SelectSeq(frame,
                              LAMBDA r : /\ r.data["Implementation"] = keys[k][1]
                                         /\ r.data["Metric"] = keys[k][2]),
                              "Average_Time_ms")
            IN  [key |-> keys[k],
                 Mean |-> Round(SeriesMean(values), 1000),
                 Min |-> Round(SeriesMin(values), 1000),
                 Max |-> Round(SeriesMax(values), 1000),
                 Std |-> RoundStd(SeriesStd(values), 1000)]]

\* line 45 (359-365): generate_statistical_summary(operations_data)
CsvStatisticalSummary ==
    /\ prog = "summary" /\ pc = "generate_statistical_summary"
    /\ summary' = statistical_summary(operations_data)
    /\ files' = Append(files, "statistical_summary.csv")
    /\ pc' = "completed"
    /\ UNCHANGED <<prog, csv, df, operations_data, memory_data, tables, best,
                   mem, i, err>>

----------------------------------------------------------------------------
(* access_pattern_visualization.py *)

Patterns == <<"Frequency", "Sequential", "Range">>

AccessKeys == {"backwards", "leaky"}

AccessText == {"1", "4"}

AccessRows ==
    {[Implementation_DataType |-> key, Average_Time_ms |-> t] :
        key \in AccessKeys, t \in AccessText}

AccessInputs == [Range(Patterns) -> SeqsUpTo(AccessRows, MaxAccessRows)]

\* lines 16-19: groupby('Implementation_DataType') with mean, min, max and
\* std of Average_Time_ms, and the Pattern_Type column
calculate_summary(frame, pattern_type) ==
    LET keys == SortedStrs(Range(Column(frame, "Implementation_DataType")))
    IN  [k \in 1..Len(keys) |->
            LET values == Column(SelectSeq(frame,
                              LAMBDA r : r.data["Implementation_DataType"] = keys[k]),
                              "Average_Time_ms")
            IN  [key |-> keys[k],
                 mean |-> SeriesMean(values),
                 min |-> SeriesMin(values),
                 max |-> SeriesMax(values),
                 std |-> SeriesStd(values),
                 Pattern_Type |-> pattern_type]]

\* lines 11-13: the three files are read
AccessRead ==
    /\ prog = "access" /\ pc = "read"
    /\ df' = [p \in Range(Patterns) |-> Coerced(Frame(csv[p]), {"Average_Time_ms"})]
    /\ pc' = "calculate_summary"
    /\ UNCHANGED <<prog, csv, operations_data, memory_data, tables, best, mem,
                   summary, files, i, err>>

\* lines 22-28: the three summaries, concatenated in this order
AccessSummaries ==
    /\ prog = "access" /\ pc = "calculate_summary"
    /\ summary' = calculate_summary(df["Frequency"], "Frequency")
                  \o calculate_summary(df["Sequential"], "Sequential")
                  \o calculate_summary(df["Range"], "Range")
    /\ pc' = "save_pattern_plot"
    /\ i' = 1
    /\ UNCHANGED <<prog, csv, df, operations_data, memory_data, tables, best,
                   mem, files, err>>

\* lines 45-47: one chart per pattern
AccessPlot ==
    /\ prog = "access" /\ pc = "save_pattern_plot"
    /\ i <= Len(Patterns)
    /\ files' = Append(files, Patterns[i])
    /\ i' = i + 1
    /\ UNCHANGED <<prog, pc, csv, df, operations_data, memory_data, tables,
                   best, mem, summary, err>>

\* lines 50-51: the combined summaries are written
AccessExport ==
    /\ prog = "access" /\ pc = "save_pattern_plot"
    /\ i > Len(Patterns)
    /\ files' = Append(files, "access_pattern_summary.csv")
    /\ pc' = "done"
    /\ UNCHANGED <<prog, csv, df, operations_data, memory_data, tables, best,
                   mem, summary, i, err>>

----------------------------------------------------------------------------
(* The runs *)

Start(script, inputs) ==
    /\ prog = script
    /\ pc = "read"
    /\ csv \in inputs
    /\ df = <<>>
    /\ operations_data = <<>>
    /\ memory_data = <<>>
    /\ tables = [name \in {} |-> <<>>]
    /\ best = <<>>
    /\ mem = <<>>
    /\ summary = <<>>
    /\ files = <<>>
    /\ i = 0
    /\ err = ""

\* scalability_visualization.py: main() runs analyze_scalability()
NextScal ==
    \/ ScalRead
    \/ ScalCheckEmpty
    \/ ScalToNumeric
    \/ ScalPlots
    \/ ScalSummaryOpen
    \/ ScalBestStep
    \/ ScalMemorySummary
    \/ Completed

\* visualization_script.py: main() runs analyze_csv()
NextCsv ==
    \/ CsvRead
    \/ CsvFilter
    \/ CsvSplitOperations
    \/ CsvSplitMemory
    \/ CsvDropna
    \/ CsvSteps
    \/ CsvSummaryStatistics
    \/ CsvTrend
    \/ CsvStatisticalSummary
    \/ Completed

\* access_pattern_visualization.py
NextAccess ==
    \/ AccessRead
    \/ AccessSummaries
    \/ AccessPlot
    \/ AccessExport

SpecScal == Start("scalability", ScalInputs) /\ [][NextScal]_vars

SpecCsv == Start("summary", CsvInputs) /\ [][NextCsv]_vars

SpecAccess == Start("access", AccessInputs) /\ [][NextAccess]_vars

\* the two scripts that write a grouped statistical summary
InitStats ==
    \/ Start("summary", CsvInputs)
    \/ Start("access", AccessInputs)

NextStats ==
    \/ NextCsv
    \/ NextAccess

SpecStats == InitStats /\ [][NextStats]_vars

Init ==
    \/ Start("scalability", ScalInputs)
    \/ Start("summary", CsvInputs)
    \/ Start("access", AccessInputs)

Next ==
    \/ NextScal
    \/ NextCsv
    \/ NextAccess

Spec == Init /\ [][Next]_vars

\* the two scripts with an analyze_* function under main()'s try/except
InitAnalysis ==
    \/ Start("scalability", ScalInputs)
    \/ Start("summary", CsvInputs)

NextAnalysis ==
    \/ NextScal
    \/ NextCsv

SpecAnalysis == InitAnalysis /\ [][NextAnalysis]_vars

----------------------------------------------------------------------------
(* The claims *)

PivotTables ==
    {"performance_data", "data_type_perf", "basic_data", "complex_data",
     "cond_heatmap"}

\* the rows of operations_data observed in cell (r, c) of a pivot table
Observed(name, r, c) ==
    {k \in 1..Len(operations_data) :
        /\ operations_data[k].data["Metric"] = c
        /\ operations_data[k].data[IF name = "data_type_perf" THEN "DataType"
                                   ELSE "Implementation"] = r}

\* C1: every pivot table built by the analysis marks a (row key, column key)
\* cell with zero observations as missing (NaN), never as the number 0
C1_ZeroObservationCellIsMissing ==
    \A name \in {t \in PivotTables : t \in DOMAIN tables} :
        \A rc \in DOMAIN tables[name].cell :
            Observed(name, rc[1], rc[2]) = {} => isna(tables[name].cell[rc])

\* the frame, the outer key and the ranked field of the best-implementation
\* selection of the running script
Ranked ==
    IF prog = "scalability"
    THEN [frame |-> df, key |-> "RowCount", value |-> "AvgTimePerOp(ms)"]
    ELSE [frame |-> operations_data, key |-> "Metric", value |-> "Average_Time_ms"]

\* the valid candidate rows under an outer key
Candidates(key) ==
    {k \in 1..Len(Ranked.frame) :
        /\ Ranked.frame[k].data[Ranked.key] = key
        /\ notna(Ranked.frame[k].data[Ranked.value])}

CellOf(k) == Ranked.frame[k].data[Ranked.value]

ImplOf(k) == Ranked.frame[k].data["Implementation"]

\* C2: when two or more candidates under an outer key have exactly equal
\* minimal value, the implementation reported as best is the
\* lexicographically smallest of them, whatever the order of the rows
C2_TieGoesToSmallestName ==
    \A n \in 1..Len(best) :
        LET cand == Candidates(best[n].key)
            least == {k \in cand : \A j \in cand : ~Lt(CellOf(j), CellOf(k))}
        IN  \A k \in least :
                \/ ImplOf(k) = best[n].Implementation
                \/ StrLt(best[n].Implementation, ImplOf(k))

\* n * (the sum of the ranked field over a set of rows), as an integer
RECURSIVE Total(_)
Total(rows) ==
    IF rows = {} THEN 0
    ELSE LET k == CHOOSE x \in rows : TRUE
         IN  CellOf(k).n + Total(rows \ {k})

\* C3: for each outer key the implementation reported as best is the one
\* whose mean of the ranked field over all its valid rows under that key is
\* minimal among the implementations present under that key
C3_BestHasMinimalGroupMean ==
    \A n \in 1..Len(best) :
        LET cand == Candidates(best[n].key)
            group(impl) == {k \in cand : ImplOf(k) = impl}
            mine == group(best[n].Implementation)
        IN  \A k \in cand :
                LET other == group(ImplOf(k))
                IN  Total(mine) * Cardinality(other) <= Total(other) * Cardinality(mine)

\* C4: in the scalability summary a row count with no valid candidate fails
\* alone: once the run has ended, every row count that has a valid candidate
\* has its best implementation reported
C4_FailureConfinedToRowCount ==
    (prog = "scalability" /\ (pc = "done" \/ (pc = "error" /\ err = "best_loop")))
        => \A k \in 1..Len(df) :
               notna(df[k].data["AvgTimePerOp(ms)"])
                   => \E n \in 1..Len(best) : best[n].key = df[k].data["RowCount"]

\* C5: rows whose Best_Implementation does not split into exactly two parts
\* are dropped without a fatal error: the split never raises on a frame that
\* has rows
C5_MalformedRowsAreNotFatal ==
    /\ (prog = "summary" /\ pc = "error" /\ err = "split_operations")
           => operations_data = <<>>
    /\ (prog = "summary" /\ pc = "error" /\ err = "split_memory")
           => memory_data = <<>>

\* C6: a group whose values of the aggregated field are all invalid gets no
\* aggregate entry: no memory-usage line carries NaN
C6_NoLineForAllInvalidGroup ==
    \A n \in 1..Len(mem) : notna(mem[n].value)

\* C7: with zero data rows the analysis ends in the explicit empty state: no
\* exception is raised and no later step runs
C7_EmptyInputEndsEmpty ==
    (prog \in {"scalability", "summary"} /\ csv.rows = <<>>)
        => /\ pc # "error"
           /\ files = <<>>
           /\ DOMAIN tables = {}
           /\ best = <<>> /\ mem = <<>> /\ summary = <<>>

\* the sum of the function f over a finite set of row positions
RECURSIVE SumOver(_, _)
SumOver(rows, f) ==
    IF rows = {} THEN 0
    ELSE LET k == CHOOSE x \in rows : TRUE
         IN  f[k] + SumOver(rows \ {k}, f)

\* the rows of the scalability file whose memory cell is a number
ValidMemoryRows(impl) ==
    {k \in 1..Len(csv.rows) :
        /\ csv.rows[k]["Implementation"] = impl
        /\ notna(to_numeric(csv.rows[k]["MemoryOverhead(MB)"]))}

\* C8: a scalability row with an invalid AvgTimePerOp(ms) is never the best
\* row of its row count, and every row with a valid MemoryOverhead(MB), its
\* AvgTimePerOp(ms) valid or not, counts in its implementation's mean memory
C8_InvalidTimeRowKeepsItsMemory ==
    (prog = "scalability" /\ "MemoryOverhead(MB)" \in csv.columns) =>
        /\ \A n \in 1..Len(best) :
               /\ notna(best[n].value)
               /\ \E k \in 1..Len(csv.rows) :
                      /\ csv.rows[k]["RowCount"] = best[n].key
                      /\ csv.rows[k]["Implementation"] = best[n].Implementation
                      /\ to_numeric(csv.rows[k]["AvgTimePerOp(ms)"]) = best[n].value
        /\ pc \in {"completed", "done"} =>
               \A r \in 1..Len(csv.rows) :
                   LET impl == csv.rows[r]["Implementation"]
                       rows == ValidMemoryRows(impl)
                       total == SumOver(rows,
                                    [k \in rows |-> to_numeric(csv.rows[k]["MemoryOverhead(MB)"]).n])
                   IN  \E n \in 1..Len(mem) :
                           /\ mem[n].Implementation = impl
                           /\ mem[n].value =
                                  IF rows = {} THEN NaN
                                  ELSE Round(Rat(total, Cardinality(rows)), 100)

\* C8 happens: the run completed, a row has an invalid time and a valid
\* memory value, its row count has a best implementation, and the row's
\* memory value is the whole of its implementation's mean
C8_Witness ==
    /\ prog = "scalability" /\ pc = "done"
    /\ \E k \in 1..Len(csv.rows) :
           /\ isna(to_numeric(csv.rows[k]["AvgTimePerOp(ms)"]))
           /\ ValidMemoryRows(csv.rows[k]["Implementation"]) = {k}
           /\ \E n \in 1..Len(best) : best[n].key = csv.rows[k]["RowCount"]
           /\ \E n \in 1..Len(mem) :
                  /\ mem[n].Implementation = csv.rows[k]["Implementation"]
                  /\ notna(mem[n].value)

\* the permutations of 1..n
Perms(n) == {p \in [1..n -> 1..n] : \A a, b \in 1..n : p[a] = p[b] => a = b}

Permuted(rows, p) == [k \in 1..Len(rows) |-> rows[p[k]]]

\* the statistical summary analyze_csv writes for a file with these rows
CsvSummaryOf(rows) ==
    statistical_summary(
        dropna(WithSplit(SelectSeq(Coerced(Frame(rows), {"Average_Time_ms"}),
                                   LAMBDA r : r.data["Category"] = "Operation")),
               {"Implementation", "DataType", "Metric", "Average_Time_ms"}))

\* the combined summary the access-pattern script writes for these files
AccessSummaryOf(input) ==
    LET frame(p) == Coerced(Frame(input[p]), {"Average_Time_ms"})
    IN  calculate_summary(frame("Frequency"), "Frequency")
        \o calculate_summary(frame("Sequential"), "Sequential")
        \o calculate_summary(frame("Range"), "Range")

\* C9: the grouped summary statistics (mean, min, max, std per group) a run
\* has written are those of every permutation of the input rows
C9_SummaryIsOrderIndependent ==
    /\ (prog = "summary" /\ pc \in {"completed", "done"}) =>
           \A p \in Perms(Len(csv.rows)) :
               CsvSummaryOf(Permuted(csv.rows, p)) = summary
    /\ (prog = "access" /\ pc \in {"save_pattern_plot", "done"}) =>
           \A f \in DOMAIN csv :
               \A p \in Perms(Len(csv[f])) :
                   AccessSummaryOf([csv EXCEPT ![f] = Permuted(csv[f], p)]) = summary

\* C9 happens: analyze_csv wrote a summary with a group of two different
\* observations, whose rows can be swapped
C9_Witness ==
    /\ prog = "summary" /\ pc = "done"
    /\ \E n \in 1..Len(summary) : summary[n].Min # summary[n].Max

\* the observations of a group: the positions of the frame's rows whose key
\* columns hold the given values and whose Average_Time_ms is valid
Group(frame, cols, key) ==
    {k \in 1..Len(frame) :
        /\ \A c \in 1..Len(cols) : frame[k].data[cols[c]] = key[c]
        /\ notna(frame[k].data["Average_Time_ms"])}

\* n(n-1) times the sample variance of a group: n * sum(x^2) - sum(x)^2
Spread(frame, rows) ==
    LET x == [k \in rows |-> frame[k].data["Average_Time_ms"].n]
    IN  Cardinality(rows) * SumOver(rows, [k \in rows |-> x[k] * x[k]])
        - SumOver(rows, x) * SumOver(rows, x)

\* std is undefined for one observation and the exact sample deviation else
SampleStd(std, frame, rows) ==
    LET n == Cardinality(rows)
    IN  /\ n = 1 => isna(std)
        /\ n >= 2 => /\ notna(std)
                     /\ std.sqrt_of = Rat(Spread(frame, rows), n * (n - 1))

\* the same for a deviation rounded to thousandths: k/1000 is the nearest
RoundedSampleStd(std, frame, rows) ==
    LET n == Cardinality(rows)
        k == (std.n * 1000) \div std.d
    IN  /\ n = 1 => isna(std)
        /\ n >= 2 =>
               /\ notna(std)
               /\ k >= 0
               /\ k > 0 => (2 * k - 1) * (2 * k - 1) * n * (n - 1)
                               <= 4000000 * Spread(frame, rows)
               /\ 4000000 * Spread(frame, rows) < (2 * k + 1) * (2 * k + 1) * n * (n - 1)

\* C10: in every grouped summary the standard deviation of a group with one
\* valid observation is undefined (NaN), never 0, and that of a group with
\* two or more is the sample (N-1) standard deviation
C10_SingleObservationStdUndefined ==
    /\ (prog = "summary" /\ pc \in {"completed", "done"}) =>
           \A n \in 1..Len(summary) :
               RoundedSampleStd(summary[n].Std, operations_data,
                   Group(operations_data, <<"Implementation", "Metric">>, summary[n].key))
    /\ (prog = "summary" /\ "characteristics" \in DOMAIN tables) =>
           \A n \in 1..Len(tables["characteristics"]) :
               SampleStd(tables["characteristics"][n].consistency, operations_data,
                   Group(operations_data, <<"Implementation">>,
                         <<tables["characteristics"][n].Implementation>>))
    /\ (prog = "access" /\ pc \in {"save_pattern_plot", "done"}) =>
           \A n \in 1..Len(summary) :
               SampleStd(summary[n].std, df[summary[n].Pattern_Type],
                   Group(df[summary[n].Pattern_Type], <<"Implementation_DataType">>,
                         <<summary[n].key>>))

\* C10 happens: the access-pattern summary holds a group of one observation,
\* with no deviation, and a group of two different ones, with a positive one
C10_Witness ==
    /\ prog = "access" /\ pc = "done"
    /\ \E a, b \in 1..Len(summary) :
           /\ Cardinality(Group(df[summary[a].Pattern_Type],
                  <<"Implementation_DataType">>, <<summary[a].key>>)) = 1
           /\ isna(summary[a].std)
           /\ notna(summary[b].std)
           /\ summary[b].std.sqrt_of.n > 0

----------------------------------------------------------------------------
(* C11: an absent declared column *)

\* the declared columns of the file the running script reads
Declared ==
    IF prog = "scalability" THEN ScalColumns ELSE CsvColumns

SchemaMismatch ==
    /\ prog \in {"scalability", "summary"}
    /\ ~(Declared \subseteq csv.columns)

\* the steps before the first plot, ranking or summary
Ingestion ==
    IF prog = "scalability"
    THEN {"read", "check_empty", "to_numeric"}
    ELSE {"read", "filter", "split_operations", "split_memory", "dropna"}

\* no plot, ranking or summary has been produced
NothingProduced ==
    /\ files = <<>> /\ DOMAIN tables = {}
    /\ best = <<>> /\ mem = <<>> /\ summary = <<>>

\* nothing has been produced, and the run is still ingesting or has
\* failed in an ingestion step
FailsAtIngestion ==
    /\ NothingProduced
    /\ \/ pc \in Ingestion
       \/ pc = "error" /\ err \in Ingestion

\* the columns of the scalability file that line 27 does not touch
Dimensions == {"RowCount", "Implementation"}

\* nothing has been produced, and the run has gone no further than the
\* first chart call, where it has failed before the savefig
FailsInFirstChart ==
    /\ NothingProduced
    /\ \/ pc \in Ingestion \cup {"plot_total_time"}
       \/ pc = "error" /\ err = "plot_total_time"

----------------------------------------------------------------------------
(* C12: the keys of the pivot tables *)

\* the rows analyze_csv keeps as operations_data for a file with these rows
OperationsOf(rows) ==
    dropna(WithSplit(SelectSeq(Coerced(Frame(rows), {"Average_Time_ms"}),
                               LAMBDA r : r.data["Category"] = "Operation")),
           {"Implementation", "DataType", "Metric", "Average_Time_ms"})

\* the pivot table of that name for a file with these rows
PivotOf(name, rows) ==
    CASE name = "performance_data" -> performance_data(OperationsOf(rows))
      [] name = "data_type_perf" -> data_type_perf(OperationsOf(rows))
      [] name = "basic_data" -> basic_data(OperationsOf(rows))
      [] name = "complex_data" -> complex_data(OperationsOf(rows))
      [] OTHER -> cond_heatmap(OperationsOf(rows))

\* the Metric values the table of that name is restricted to
MetricsOf(name) ==
    CASE name = "basic_data" -> basic_ops
      [] name = "complex_data" -> complex_ops
      [] name = "cond_heatmap" -> conditions
      [] OTHER -> Metrics

\* the rows of operations_data that enter the table of that name
Filtered(name) ==
    {k \in 1..Len(operations_data) :
        operations_data[k].data["Metric"] \in MetricsOf(name)}

Ascending(keys) ==
    \A a, b \in 1..Len(keys) : a < b => StrLt(keys[a], keys[b])

\* the position of analyze_csv when the step that builds the table returns
BuiltAt(name) ==
    CASE name = "performance_data" -> "create_memory_usage_plot"
      [] name = "data_type_perf" -> "print_summary_statistics"
      [] name \in {"basic_data", "complex_data"} ->
             "analyze_implementation_characteristics"
      [] OTHER -> "plot_trend_over_data_sizes"

\* C12: the row keys and the column keys of every pivot table built are
\* exactly the dimension values observed in the filtered operation rows, in
\* strictly ascending key order, and the table (keys, order and cells) a step
\* returns with is the one built from any permutation of the input rows
C12_PivotKeysSortedAndOrderIndependent ==
    \A name \in PivotTables \cap DOMAIN tables :
        LET table == tables[name]
            dim == IF name = "data_type_perf" THEN "DataType" ELSE "Implementation"
        IN  /\ Range(table.index) =
                   {operations_data[k].data[dim] : k \in Filtered(name)}
            /\ Range(table.columns) =
                   {operations_data[k].data["Metric"] : k \in Filtered(name)}
            /\ Ascending(table.index)
            /\ Ascending(table.columns)
            /\ pc = BuiltAt(name) =>
                   \A p \in Perms(Len(csv.rows)) :
                       PivotOf(name, Permuted(csv.rows, p)) = table

\* C12 happens: performance_data was built from operation rows whose
\* implementations and metrics both arrive in descending order
C12_Witness ==
    /\ "performance_data" \in DOMAIN tables
    /\ Len(tables["performance_data"].index) = 2
    /\ Len(tables["performance_data"].columns) = 2
    /\ \E a, b \in 1..Len(operations_data) :
           /\ a < b
           /\ StrLt(operations_data[b].data["Implementation"],
                    operations_data[a].data["Implementation"])
           /\ StrLt(operations_data[b].data["Metric"],
                    operations_data[a].data["Metric"])

----------------------------------------------------------------------------
(* C13: the order of the steps and the success message *)

\* the steps of analyze_scalability in the order of lines 13-40, the loop of
\* print_summary_statistics being one position
ScalStepOrder ==
    <<"read", "check_empty", "to_numeric", "plot_total_time",
      "plot_avg_time_per_op", "plot_percentiles", "plot_memory_usage",
      "print_summary_statistics", "best_loop", "completed", "done">>

\* the steps of analyze_csv in the order of lines 14-47
CsvStepOrder ==
    <<"read", "filter", "split_operations", "split_memory", "dropna",
      "create_operation_performance_plot", "create_memory_usage_plot",
      "create_data_type_comparison", "print_summary_statistics",
      "analyze_operation_patterns", "analyze_implementation_characteristics",
      "print_implementation_analysis", "plot_latency_distribution",
      "analyze_conditional_queries", "plot_trend_over_data_sizes",
      "generate_statistical_summary", "completed", "done">>

StepOrder == IF prog = "scalability" THEN ScalStepOrder ELSE CsvStepOrder

StepNo(label) == CHOOSE k \in 1..Len(StepOrder) : StepOrder[k] = label

\* the files a complete run of the script writes, in the order it writes them
Artifacts ==
    IF prog = "scalability"
    THEN <<"scalability_total_time.png", "scalability_avg_time_per_op.png",
           "scalability_percentiles.png", "scalability_memory_usage.png",
           "scalability_summary.txt">>
    ELSE <<"operation_performance.png", "memory_usage.png",
           "data_type_performance.png", "performance_summary.txt",
           "implementation_patterns.png", "implementation_characteristics.png",
           "implementation_analysis.txt", "latency_distribution.png",
           "conditional_query_performance.png">>
         \o (IF "Data_Size" \in csv.columns
             THEN <<"performance_trend_over_data_sizes.png">> ELSE <<>>)
         \o <<"statistical_summary.csv">>

\* "Analysis completed successfully!" has been printed
Succeeded == pc = "done"

\* main() has caught an exception
Failed == pc = "error"

\* the files written so far are the first files of a complete run, success
\* comes with all of them and no exception, and a failure names its step
OrderedOutputs ==
    /\ Len(files) <= Len(Artifacts)
    /\ files = SubSeq(Artifacts, 1, Len(files))
    /\ Succeeded => (files = Artifacts /\ err = "")
    /\ Failed <=> err # ""

\* a step starts from a run that has neither failed nor succeeded, goes to
\* the next position of the fixed order (or stays in the loop), returns on
\* the empty file, or raises; a step that raises writes nothing and removes
\* nothing
OrderedStep ==
    /\ ~Failed /\ ~Succeeded
    /\ \/ pc' = pc /\ pc = "best_loop"
       \/ pc' = StepOrder[StepNo(pc) + 1]
       \/ pc' = "empty" /\ pc = "check_empty"
       \/ /\ pc' = "error"
          /\ files' = files /\ tables' = tables
          /\ best' = best /\ mem' = mem /\ summary' = summary
    /\ Len(files) <= Len(files') /\ files = SubSeq(files', 1, Len(files))

\* C13: in analyze_scalability and analyze_csv the steps run in the fixed
\* order, the success message comes only after every output-producing step
\* has completed without raising, and when a step raises main reports the
\* error, no later step runs, success is never reported and the artifacts
\* written before (the partly written scalability_summary.txt included)
\* stay in place
C13_FixedOrderAndSuccessLast ==
    []OrderedOutputs /\ [][OrderedStep]_vars

\* C13 happens: print_summary_statistics raised in its loop after the four
\* charts, leaving scalability_summary.txt with the line of an earlier row
\* count
C13_Witness ==
    /\ prog = "scalability"
    /\ Failed /\ err = "best_loop"
    /\ Len(best) >= 1
    /\ Len(files) = 5
    /\ files[5] = "scalability_summary.txt"

====
